---- MODULE Spec2Model ----
(***************************************************************************)
(* Nutmeg/Model.cpp: the Model that wires the MIP engine (SCIP, "backend   *)
(* A") to the CP engine (Geas, "backend B"), its ProblemData, and the      *)
(* original/transformed problem callbacks of SCIP.                         *)
(*                                                                         *)
(* Table indices are the 0-based indices of the C++ vectors; a table is a  *)
(* TLA+ sequence and At(s, i) reads the entry at C++ index i.              *)
(***************************************************************************)
EXTENDS Integers, Sequences, FiniteSets, Bags, TLC

\* ------------------------------------------------------------------ bounds
\* Largest length of the boolean table (the two sentinels included).
MaxBoolVars == 4
\* Largest length of the integer table (the zero sentinel included).
MaxIntVars == 2
\* Largest number of transformed problems SCIP creates in one run.
MaxCycles == 2
\* Largest number of minimize calls in one run.
MaxMinimize == 2
\* Largest reading of clock().
MaxClock == 3
\* Largest time limit passed to minimize / start_timer (the smallest is its
\* negation, so that zero and negative limits are among the inputs).
MaxTimeLimit == 2

\* ----------------------------------------------------------- backend A (SCIP)
\* A SCIP_VAR* / SCIP_CONS* value.  k: what it points to; t: it belongs to
\* the transformed problem; n: it is the negation (complement) of variable
\* id; id: rank of creation in the original problem.
NULL == [k |-> "null", t |-> FALSE, n |-> FALSE, id |-> 0]

OrigVar(id) == [k |-> "var", t |-> FALSE, n |-> FALSE, id |-> id]

OrigCons(id) == [k |-> "cons", t |-> FALSE, n |-> FALSE, id |-> id]

\* SCIPcreateVarBasic(scip, &var, name, lb, ub, obj, vartype): what SCIP
\* records of the new variable.
SCIPcreateVarBasic(name, lb, ub, obj, vartype) ==
    [name |-> name, lb |-> lb, ub |-> ub, obj |-> obj, vartype |-> vartype]

\* SCIPgetNegatedVar: the complement of var; created if needed, owned by var
\* (no capture is handed to the caller).
SCIPgetNegatedVar(var) == [var EXCEPT !.n = ~var.n]

\* SCIPtransformVar / SCIPtransformCons: the counterpart in the transformed
\* problem, captured for the caller.
SCIPtransform(h) == [h EXCEPT !.t = TRUE]

\* ----------------------------------------------------------- backend B (Geas)
\* A geas::patom_t: atom id and sign; at_True / at_False are the two signs
\* of atom 0.
at_True == [atom |-> 0, sign |-> TRUE]

at_False == [atom |-> 0, sign |-> FALSE]

CpAtom(a) == [atom |-> a, sign |-> TRUE]

CpNeg(p) == [p EXCEPT !.sign = ~p.sign]

\* A geas::intvar: id and the bounds it was created with.
CpIntVar(id, lb, ub) == [id |-> id, lb |-> lb, ub |-> ub]

\* -------------------------------------------------------------- ProblemData
At(s, i) == s[i + 1]

SetAt(s, i, v) == [s EXCEPT ![i + 1] = v]

\* A ProblemData whose tables are empty (the member before the constructor
\* body runs; -1 stands for the objective index not set yet).  model_, cp_
\* and sol_ are the three references probdata_(*this, cp_, sol_) is built
\* from: they name the Model, its CP engine and its solution, they are not
\* copies of them.
EmptyProblemData ==
    [ mip_bool_vars_ |-> << >>, mip_neg_vars_idx_ |-> << >>,
      cp_bool_vars_ |-> << >>, bool_vars_name_ |-> << >>,
      mip_int_vars_ |-> << >>, mip_indicator_vars_idx_ |-> << >>,
      cp_int_vars_ |-> << >>, int_vars_lb_ |-> << >>, int_vars_ub_ |-> << >>,
      int_vars_name_ |-> << >>,
      obj_var_idx_ |-> -1, cp_cons_ |-> NULL,
      model_ |-> "Model", cp_ |-> "Model::cp_", sol_ |-> "Model::sol_" ]

nb_bool_vars(pd) == Len(pd.mip_bool_vars_)

nb_int_vars(pd) == Len(pd.mip_int_vars_)

\* ProblemData::is_pos_var.  The entry is a positive variable when its
\* partner index is not smaller than its own: the sentinel pair is stored as
\* neg_idx[0] = 1, neg_idx[1] = 0 and index 0 is the positive one.
is_pos_var(pd, idx) == idx <= At(pd.mip_neg_vars_idx_, idx)

\* ProblemData::negation_of: the partner index of an entry.
negation_of(pd, idx) == At(pd.mip_neg_vars_idx_, idx)

\* The addresses a ProblemData lives at: the Model member probdata_ and the
\* block SCIPallocBlockMemory hands out for the transformed problem.
ORIG == "probdata_"

BLOCK == "block"

NULLPTR == "nullptr"

Addrs == {ORIG, BLOCK}

\* The storage a ProblemData's sol_ reference can name.
SolCells == {"Model::sol_"}

Methods == {"BC", "LBBD", "MIP", "CP", "OTHER"}

TimeLimits == (0 - MaxTimeLimit) .. MaxTimeLimit

\* ------------------------------------------------------------------- Float
\* CLOCKS_PER_SEC of <ctime>, implementation-defined; the model's clock
\* ticks twice a second, so that elapsed times that are no whole number of
\* seconds occur.
CLOCKS_PER_SEC == 2

Abs(n) == IF n < 0 THEN 0 - n ELSE n

RECURSIVE GCD(_, _)
GCD(a, b) == IF b = 0 THEN a ELSE GCD(b, a % b)

\* A Float value, kept exactly: the fraction n / d (d > 0) in lowest terms.
Frac(n, d) ==
    LET g == GCD(Abs(n), d)
    IN [num |-> n \div g, den |-> d \div g]

\* Float subtraction.
FracSub(x, y) == Frac(x.num * y.den - y.num * x.den, x.den * y.den)

VARIABLES
    method_,      \* Model::method_
    mip_,         \* the SCIP instance: "null", "created", "freed"
    pc,           \* position of the running operation ("live": none runs)
    ret,          \* where on-detransform returns to
    probdata,     \* the local ProblemData* of the running callback
    idx,          \* the loop index of the running operation
    mem,          \* the ProblemData stored at each address
    allocated,    \* the addresses that hold a constructed ProblemData
    transdata,    \* SCIP's transformed problem data pointer
    callbacks,    \* the installed problem callbacks
    vardefs,      \* the variables created in the original problem, in order
    ncons,        \* number of constraints created in the original problem
    probvars,     \* variables added to the original problem
    probconss,    \* constraints added to the original problem
    held,         \* bag of the captures this code holds on SCIP handles
    misrel,       \* a release call was made on a handle without a capture
    relneg,       \* a release call was made on a negated variable
    assert_failed,\* a debug_assert / release_assert failed
    sol_,         \* Model::sol_
    cycles,       \* number of transformed problems created so far
    strategy,     \* the minimize_using_* entered last ("none": none yet)
    call_args,    \* the arguments that strategy was entered with
    nb_minimize,  \* number of minimize calls so far
    time_limit_,  \* Model::time_limit_
    start_time_,  \* Model::start_time_
    clk,          \* the reading of clock()
    query         \* the last timer query made and the value it returned

vars == << method_, mip_, pc, ret, probdata, idx, mem, allocated, transdata,
           callbacks, vardefs, ncons, probvars, probconss, held, misrel, relneg,
           assert_failed, sol_, cycles, strategy, call_args, nb_minimize,
           time_limit_, start_time_, clk, query >>

scipvars == << vardefs, ncons, probvars, probconss >>

\* The number of variables created so far: the rank of the next one.
nvars == Len(vardefs)

timervars == << strategy, call_args, nb_minimize, time_limit_, start_time_, clk,
               query >>

flagvars == << misrel, relneg, assert_failed >>

\* ----------------------------------------------------------- handle captures
Capture(b, h) == b (+) SetToBag({h})

Release(b, h) == IF BagIn(h, b) THEN b (-) SetToBag({h}) ELSE b

\* ----------------------------------------------------------------- Model()
\* The member initialisers of Model::Model, before the constructor body.
Init ==
    /\ method_ \in Methods
    /\ mip_ = "null"
    /\ pc = "ctor_scip"
    /\ ret = "live"
    /\ probdata = NULLPTR
    /\ idx = 0
    /\ mem = [a \in Addrs |-> EmptyProblemData]
    /\ allocated = {ORIG}
    /\ transdata = NULLPTR
    /\ callbacks = {}
    /\ vardefs = << >>
    /\ ncons = 0
    /\ probvars = {}
    /\ probconss = {}
    /\ held = EmptyBag
    /\ misrel = FALSE
    /\ relneg = FALSE
    /\ assert_failed = FALSE
    /\ sol_ = [c \in SolCells |-> 0]
    /\ cycles = 0
    /\ strategy = "none"
    /\ call_args = << 0, 0 >>
    /\ nb_minimize = 0
    /\ time_limit_ = 0
    /\ start_time_ = 0
    /\ clk = 0
    /\ query = [op |-> "none", val |-> Frac(0, 1)]

\* SCIPcreate ... SCIPsetProbData.
CtorScip ==
    /\ pc = "ctor_scip"
    /\ mip_' = "created"
    /\ pc' = "ctor_false"
    /\ UNCHANGED << method_, ret, probdata, idx, mem, allocated, transdata,
                    callbacks, scipvars, held, flagvars, sol_, cycles, timervars >>

\* CtorFalse that stores the entry's own index as its aliasing index.
CtorFalseSelf ==
    /\ pc = "ctor_false"
    /\ LET mip_var == OrigVar(nvars)
           pd == mem[ORIG]
       IN /\ mem' = [mem EXCEPT ![ORIG] =
                  [pd EXCEPT !.mip_bool_vars_ = Append(@, mip_var),
                             !.mip_neg_vars_idx_ = Append(@, 0),
                             !.cp_bool_vars_ = Append(@, at_False),
                             !.bool_vars_name_ = Append(@, "false")]]
          /\ held' = Capture(held, mip_var)
          /\ probvars' = probvars \cup {mip_var}
    /\ vardefs' = Append(vardefs, SCIPcreateVarBasic("false", 0, 0, 0, "BINARY"))
    /\ pc' = "ctor_true"
    /\ UNCHANGED << method_, mip_, ret, probdata, idx, allocated, transdata,
                    callbacks, ncons, probconss, flagvars, sol_, cycles, timervars >>

\* "Create variable representing false."
CtorFalse ==
    /\ pc = "ctor_false"
    /\ LET mip_var == OrigVar(nvars)
           pd == mem[ORIG]
       IN /\ mem' = [mem EXCEPT ![ORIG] =
                  [pd EXCEPT !.mip_bool_vars_ = Append(@, mip_var),
                             !.mip_neg_vars_idx_ = Append(@, 1),
                             !.cp_bool_vars_ = Append(@, at_False),
                             !.bool_vars_name_ = Append(@, "false")]]
          /\ held' = Capture(held, mip_var)
          /\ probvars' = probvars \cup {mip_var}
    /\ vardefs' = Append(vardefs, SCIPcreateVarBasic("false", 0, 0, 0, "BINARY"))
    /\ pc' = "ctor_true"
    /\ UNCHANGED << method_, mip_, ret, probdata, idx, allocated, transdata,
                    callbacks, ncons, probconss, flagvars, sol_, cycles, timervars >>

\* CtorTrue that stores the entry's own index as its aliasing index.
CtorTrueSelf ==
    /\ pc = "ctor_true"
    /\ LET pd == mem[ORIG]
       IN mem' = [mem EXCEPT ![ORIG] =
                  [pd EXCEPT !.mip_bool_vars_ =
                                 Append(@, SCIPgetNegatedVar(At(pd.mip_bool_vars_, 0))),
                             !.mip_neg_vars_idx_ = Append(@, 1),
                             !.cp_bool_vars_ = Append(@, at_True),
                             !.bool_vars_name_ = Append(@, "true")]]
    /\ pc' = "ctor_zero"
    /\ UNCHANGED << method_, mip_, ret, probdata, idx, allocated, transdata,
                    callbacks, scipvars, held, flagvars, sol_, cycles, timervars >>

\* CtorTrue with the usual slip: "true" made a variable of its own rather than
\* the complement of "false".
CtorTrueFresh ==
    /\ pc = "ctor_true"
    /\ LET pd == mem[ORIG]
       IN mem' = [mem EXCEPT ![ORIG] =
                  [pd EXCEPT !.mip_bool_vars_ =
                                 Append(@, OrigVar(nvars)),
                             !.mip_neg_vars_idx_ = Append(@, 0),
                             !.cp_bool_vars_ = Append(@, at_True),
                             !.bool_vars_name_ = Append(@, "true")]]
    /\ pc' = "ctor_zero"
    /\ UNCHANGED << method_, mip_, ret, probdata, idx, allocated, transdata,
                    callbacks, scipvars, held, flagvars, sol_, cycles, timervars >>

\* "Create variable representing true."
CtorTrue ==
    /\ pc = "ctor_true"
    /\ LET pd == mem[ORIG]
       IN mem' = [mem EXCEPT ![ORIG] =
                  [pd EXCEPT !.mip_bool_vars_ =
                                 Append(@, SCIPgetNegatedVar(At(pd.mip_bool_vars_, 0))),
                             !.mip_neg_vars_idx_ = Append(@, 0),
                             !.cp_bool_vars_ = Append(@, at_True),
                             !.bool_vars_name_ = Append(@, "true")]]
    /\ pc' = "ctor_zero"
    /\ UNCHANGED << method_, mip_, ret, probdata, idx, allocated, transdata,
                    callbacks, scipvars, held, flagvars, sol_, cycles, timervars >>

\* CtorZero without the entry of the indicator table.
CtorZeroNoIndicator ==
    /\ pc = "ctor_zero"
    /\ LET mip_var == OrigVar(nvars)
           pd == mem[ORIG]
       IN /\ mem' = [mem EXCEPT ![ORIG] =
                  [pd EXCEPT !.mip_int_vars_ = Append(@, mip_var),
                             !.cp_int_vars_ = Append(@, CpIntVar(0, 0, 0)),
                             !.int_vars_lb_ = Append(@, 0),
                             !.int_vars_ub_ = Append(@, 0),
                             !.int_vars_name_ = Append(@, "0"),
                             !.obj_var_idx_ = 0]]
          /\ held' = Capture(held, mip_var)
          /\ probvars' = probvars \cup {mip_var}
    /\ vardefs' = Append(vardefs, SCIPcreateVarBasic("zero", 0, 0, 0, "INTEGER"))
    /\ pc' = "ctor_cons"
    /\ UNCHANGED << method_, mip_, ret, probdata, idx, allocated, transdata,
                    callbacks, ncons, probconss, flagvars, sol_, cycles, timervars >>

\* "Create variable representing 0."
CtorZero ==
    /\ pc = "ctor_zero"
    /\ LET mip_var == OrigVar(nvars)
           pd == mem[ORIG]
       IN /\ mem' = [mem EXCEPT ![ORIG] =
                  [pd EXCEPT !.mip_int_vars_ = Append(@, mip_var),
                             !.mip_indicator_vars_idx_ = Append(@, << >>),
                             !.cp_int_vars_ = Append(@, CpIntVar(0, 0, 0)),
                             !.int_vars_lb_ = Append(@, 0),
                             !.int_vars_ub_ = Append(@, 0),
                             !.int_vars_name_ = Append(@, "0"),
                             !.obj_var_idx_ = 0]]
          /\ held' = Capture(held, mip_var)
          /\ probvars' = probvars \cup {mip_var}
    /\ vardefs' = Append(vardefs, SCIPcreateVarBasic("zero", 0, 0, 0, "INTEGER"))
    /\ pc' = "ctor_cons"
    /\ UNCHANGED << method_, mip_, ret, probdata, idx, allocated, transdata,
                    callbacks, ncons, probconss, flagvars, sol_, cycles, timervars >>

\* CtorCons with the wrong test of the method: the constraint is created in
\* every mode but pure CP.
CtorConsAlways ==
    /\ pc = "ctor_cons"
    /\ IF method_ # "CP"
       THEN LET cons == OrigCons(ncons)
            IN /\ mem' = [mem EXCEPT ![ORIG].cp_cons_ = cons]
               /\ held' = Capture(held, cons)
               /\ probconss' = probconss \cup {cons}
               /\ ncons' = ncons + 1
       ELSE UNCHANGED << mem, held, probconss, ncons >>
    /\ pc' = "ctor_callbacks"
    /\ UNCHANGED << method_, mip_, ret, probdata, idx, allocated, transdata,
                    callbacks, vardefs, probvars, flagvars, sol_, cycles, timervars >>

\* "Create constraint handler for Geas."
CtorCons ==
    /\ pc = "ctor_cons"
    /\ IF method_ = "BC"
       THEN LET cons == OrigCons(ncons)
            IN /\ mem' = [mem EXCEPT ![ORIG].cp_cons_ = cons]
               /\ held' = Capture(held, cons)
               /\ probconss' = probconss \cup {cons}
               /\ ncons' = ncons + 1
       ELSE UNCHANGED << mem, held, probconss, ncons >>
    /\ pc' = "ctor_callbacks"
    /\ UNCHANGED << method_, mip_, ret, probdata, idx, allocated, transdata,
                    callbacks, vardefs, probvars, flagvars, sol_, cycles, timervars >>

\* "Add callbacks."
CtorCallbacks ==
    /\ pc = "ctor_callbacks"
    /\ callbacks' = {"probtrans", "probdeltrans"}
    /\ pc' = "live"
    /\ UNCHANGED << method_, mip_, ret, probdata, idx, mem, allocated, transdata,
                    scipvars, held, flagvars, sol_, cycles, timervars >>

\* A backend call of the constructor body returns an error: its scip_assert
\* (or release_assert) ends the constructor there.  created: the failing call
\* is the one after the block's create call (SCIPaddVar, SCIPaddCons, a
\* later call of the set-up), so what that call created exists.  The body
\* holds its handles in plain pointers and has no handler on this path: what
\* was created stays as it is.
CtorFail(created) ==
    /\ pc \in {"ctor_scip", "ctor_false", "ctor_true", "ctor_zero", "ctor_cons",
               "ctor_callbacks"}
    /\ pc = "ctor_cons" => method_ = "BC"
    /\ pc \in {"ctor_true", "ctor_callbacks"} => ~created
    /\ LET pd == mem[ORIG]
           mip_var == IF created THEN OrigVar(nvars) ELSE NULL
           cons == IF created THEN OrigCons(ncons) ELSE NULL
       IN CASE pc = "ctor_scip" ->
                 /\ mip_' = (IF created THEN "created" ELSE "null")
                 /\ UNCHANGED << mem, held, vardefs, ncons >>
            [] pc = "ctor_false" ->
                 /\ mem' = [mem EXCEPT ![ORIG].mip_bool_vars_ = Append(@, mip_var)]
                 /\ held' = (IF created THEN Capture(held, mip_var) ELSE held)
                 /\ vardefs' = (IF created
                                THEN Append(vardefs,
                                            SCIPcreateVarBasic("false", 0, 0, 0, "BINARY"))
                                ELSE vardefs)
                 /\ UNCHANGED << mip_, ncons >>
            [] pc = "ctor_true" ->
                 /\ mem' = [mem EXCEPT ![ORIG].mip_bool_vars_ = Append(@, NULL)]
                 /\ UNCHANGED << mip_, held, vardefs, ncons >>
            [] pc = "ctor_zero" ->
                 /\ mem' = [mem EXCEPT ![ORIG].mip_int_vars_ = Append(@, mip_var)]
                 /\ held' = (IF created THEN Capture(held, mip_var) ELSE held)
                 /\ vardefs' = (IF created
                                THEN Append(vardefs,
                                            SCIPcreateVarBasic("zero", 0, 0, 0, "INTEGER"))
                                ELSE vardefs)
                 /\ UNCHANGED << mip_, ncons >>
            [] pc = "ctor_cons" ->
                 /\ mem' = [mem EXCEPT ![ORIG].cp_cons_ = cons]
                 /\ held' = (IF created THEN Capture(held, cons) ELSE held)
                 /\ ncons' = (IF created THEN ncons + 1 ELSE ncons)
                 /\ UNCHANGED << mip_, vardefs >>
            [] pc = "ctor_callbacks" ->
                 UNCHANGED << mip_, mem, held, vardefs, ncons >>
    /\ assert_failed' = TRUE
    /\ pc' = "ctor_failed"
    /\ UNCHANGED << method_, ret, probdata, idx, allocated, transdata, callbacks,
                    probvars, probconss, misrel, relneg, sol_, cycles, timervars >>

\* ------------------------------------------------- variables (ProblemData)
\* create_boolean_variable: a new positive boolean variable in both engines;
\* its aliasing index is its own index.
AddBoolVar ==
    /\ pc = "live"
    /\ transdata = NULLPTR
    /\ nb_bool_vars(mem[ORIG]) < MaxBoolVars
    /\ LET mip_var == OrigVar(nvars)
           pd == mem[ORIG]
           new == nb_bool_vars(pd)
       IN /\ mem' = [mem EXCEPT ![ORIG] =
                  [pd EXCEPT !.mip_bool_vars_ = Append(@, mip_var),
                             !.mip_neg_vars_idx_ = Append(@, new),
                             !.cp_bool_vars_ = Append(@, CpAtom(new)),
                             !.bool_vars_name_ = Append(@, "b")]]
          /\ held' = Capture(held, mip_var)
          /\ probvars' = probvars \cup {mip_var}
    /\ vardefs' = Append(vardefs, SCIPcreateVarBasic("b", 0, 1, 0, "BINARY"))
    /\ UNCHANGED << method_, mip_, pc, ret, probdata, idx, allocated, transdata,
                    callbacks, ncons, probconss, flagvars, sol_, cycles, timervars >>

\* negate: the aliased negative entry of a positive variable that has none
\* yet; backend A's complement of the positive variable, backend B's negated
\* view of its atom.  The two entries name each other.
GetNeg(p) ==
    /\ pc = "live"
    /\ transdata = NULLPTR
    /\ nb_bool_vars(mem[ORIG]) < MaxBoolVars
    /\ At(mem[ORIG].mip_neg_vars_idx_, p) = p
    /\ LET pd == mem[ORIG]
           new == nb_bool_vars(pd)
       IN mem' = [mem EXCEPT ![ORIG] =
                  [pd EXCEPT !.mip_bool_vars_ =
                                 Append(@, SCIPgetNegatedVar(At(pd.mip_bool_vars_, p))),
                             !.mip_neg_vars_idx_ = Append(SetAt(@, p, new), p),
                             !.cp_bool_vars_ = Append(@, CpNeg(At(pd.cp_bool_vars_, p))),
                             !.bool_vars_name_ = Append(@, "~b")]]
    /\ UNCHANGED << method_, mip_, pc, ret, probdata, idx, allocated, transdata,
                    callbacks, scipvars, held, flagvars, sol_, cycles, timervars >>

\* create_integer_variable: parallel integer variables with the same bounds;
\* a slot that is not materialised yet holds no backend-A handle.
AddIntVar(lb, ub, present) ==
    /\ pc = "live"
    /\ transdata = NULLPTR
    /\ nb_int_vars(mem[ORIG]) < MaxIntVars
    /\ LET mip_var == IF present THEN OrigVar(nvars) ELSE NULL
           pd == mem[ORIG]
           new == nb_int_vars(pd)
       IN /\ mem' = [mem EXCEPT ![ORIG] =
                  [pd EXCEPT !.mip_int_vars_ = Append(@, mip_var),
                             !.mip_indicator_vars_idx_ = Append(@, << >>),
                             !.cp_int_vars_ = Append(@, CpIntVar(new, lb, ub)),
                             !.int_vars_lb_ = Append(@, lb),
                             !.int_vars_ub_ = Append(@, ub),
                             !.int_vars_name_ = Append(@, "x")]]
          /\ IF present
             THEN /\ held' = Capture(held, mip_var)
                  /\ probvars' = probvars \cup {mip_var}
                  /\ vardefs' = Append(vardefs, SCIPcreateVarBasic("x", lb, ub, 0, "INTEGER"))
             ELSE UNCHANGED << held, probvars, vardefs >>
    /\ UNCHANGED << method_, mip_, pc, ret, probdata, idx, allocated, transdata,
                    callbacks, ncons, probconss, flagvars, sol_, cycles, timervars >>

\* A strategy or the constraint handler sets the objective variable index
\* through the ProblemData at address a.
WriteObj(a, v) ==
    /\ pc = "live"
    /\ a \in allocated
    /\ v \in 0 .. (nb_int_vars(mem[a]) - 1)
    /\ v # mem[a].obj_var_idx_
    /\ mem' = [mem EXCEPT ![a].obj_var_idx_ = v]
    /\ UNCHANGED << method_, mip_, pc, ret, probdata, idx, allocated, transdata,
                    callbacks, scipvars, held, flagvars, sol_, cycles, timervars >>

\* A strategy or the constraint handler stores a solution through the sol_
\* reference of the ProblemData at address a.
WriteSol(a, v) ==
    /\ pc = "live"
    /\ a \in allocated
    /\ v # sol_[mem[a].sol_]
    /\ sol_' = [sol_ EXCEPT ![mem[a].sol_] = v]
    /\ UNCHANGED << method_, mip_, pc, ret, probdata, idx, mem, allocated, transdata,
                    callbacks, scipvars, held, flagvars, cycles, timervars >>

\* No copy is made: the source data itself is handed to SCIP.
NewProblemDataAlias(sourcedata) == sourcedata

\* ------------------------------------------------------ callback_probtrans
\* The address of the ProblemData on-transform builds from the source data:
\* a fresh block of SCIP memory.
NewProblemData(sourcedata) == BLOCK

\* SCIP asks for the transformed problem data: allocate, copy-construct from
\* the source data, hand the pointer to SCIP.
TransBegin ==
    /\ pc = "live"
    /\ mip_ = "created"
    /\ "probtrans" \in callbacks
    /\ transdata = NULLPTR
    /\ cycles < MaxCycles
    /\ LET sourcedata == ORIG
           target == NewProblemData(sourcedata)
       IN /\ probdata' = target
          /\ mem' = [mem EXCEPT ![target] = mem[sourcedata]]
          /\ allocated' = allocated \cup {target}
          /\ transdata' = target
    /\ cycles' = cycles + 1
    /\ pc' = "trans_cons"
    /\ UNCHANGED << method_, mip_, ret, idx, callbacks, scipvars, held, flagvars,
                    sol_, timervars >>

\* TransCons that stores the transformed constraint in the source data.
TransConsSource ==
    /\ pc = "trans_cons"
    /\ LET pd == mem[probdata]
       IN IF pd.cp_cons_ # NULL
          THEN /\ mem' = [mem EXCEPT ![ORIG].cp_cons_ = SCIPtransform(pd.cp_cons_)]
               /\ held' = Capture(held, SCIPtransform(pd.cp_cons_))
          ELSE UNCHANGED << mem, held >>
    /\ pc' = "trans_bool"
    /\ idx' = 0
    /\ UNCHANGED << method_, mip_, ret, probdata, allocated, transdata, callbacks,
                    scipvars, flagvars, sol_, cycles, timervars >>

\* "Transform CP constraint."
TransCons ==
    /\ pc = "trans_cons"
    /\ LET pd == mem[probdata]
       IN IF pd.cp_cons_ # NULL
          THEN /\ mem' = [mem EXCEPT ![probdata].cp_cons_ = SCIPtransform(pd.cp_cons_)]
               /\ held' = Capture(held, SCIPtransform(pd.cp_cons_))
          ELSE UNCHANGED << mem, held >>
    /\ pc' = "trans_bool"
    /\ idx' = 0
    /\ UNCHANGED << method_, mip_, ret, probdata, allocated, transdata, callbacks,
                    scipvars, flagvars, sol_, cycles, timervars >>

\* TransBool with var a copy of the entry, not a reference to it: the
\* transformed variable is captured and not stored.
TransBoolByValue ==
    /\ pc = "trans_bool"
    /\ LET pd == mem[probdata]
       IN IF idx < nb_bool_vars(pd)
          THEN IF is_pos_var(pd, idx)
               THEN LET var == At(pd.mip_bool_vars_, idx)
                    IN /\ held' = Capture(held, SCIPtransform(var))
                       /\ idx' = idx + 1
                       /\ UNCHANGED << mem, pc, assert_failed >>
               ELSE LET pos_idx == At(pd.mip_neg_vars_idx_, idx)
                    IN IF pos_idx >= 0 /\ pos_idx < idx
                       THEN /\ mem' = [mem EXCEPT ![probdata].mip_bool_vars_ =
                                      SetAt(@, idx,
                                            SCIPgetNegatedVar(At(pd.mip_bool_vars_, pos_idx)))]
                            /\ idx' = idx + 1
                            /\ UNCHANGED << pc, held, assert_failed >>
                       ELSE /\ assert_failed' = TRUE
                            /\ pc' = "aborted"
                            /\ UNCHANGED << mem, held, idx >>
          ELSE /\ pc' = "trans_int"
               /\ idx' = 0
               /\ UNCHANGED << mem, held, assert_failed >>
    /\ UNCHANGED << method_, mip_, ret, probdata, allocated, transdata, callbacks,
                    scipvars, misrel, relneg, sol_, cycles, timervars >>

\* "Transform variables.": one iteration of the loop over the boolean table.
TransBool ==
    /\ pc = "trans_bool"
    /\ LET pd == mem[probdata]
       IN IF idx < nb_bool_vars(pd)
          THEN IF is_pos_var(pd, idx)
               THEN LET var == At(pd.mip_bool_vars_, idx)
                    IN /\ mem' = [mem EXCEPT ![probdata].mip_bool_vars_ =
                                      SetAt(@, idx, SCIPtransform(var))]
                       /\ held' = Capture(held, SCIPtransform(var))
                       /\ idx' = idx + 1
                       /\ UNCHANGED << pc, assert_failed >>
               ELSE LET pos_idx == At(pd.mip_neg_vars_idx_, idx)
                    IN IF pos_idx >= 0 /\ pos_idx < idx
                       THEN /\ mem' = [mem EXCEPT ![probdata].mip_bool_vars_ =
                                      SetAt(@, idx,
                                            SCIPgetNegatedVar(At(pd.mip_bool_vars_, pos_idx)))]
                            /\ idx' = idx + 1
                            /\ UNCHANGED << pc, held, assert_failed >>
                       ELSE /\ assert_failed' = TRUE
                            /\ pc' = "aborted"
                            /\ UNCHANGED << mem, held, idx >>
          ELSE /\ pc' = "trans_int"
               /\ idx' = 0
               /\ UNCHANGED << mem, held, assert_failed >>
    /\ UNCHANGED << method_, mip_, ret, probdata, allocated, transdata, callbacks,
                    scipvars, misrel, relneg, sol_, cycles, timervars >>

\* TransInt that transforms no integer variable.
TransIntSkip ==
    /\ pc = "trans_int"
    /\ LET pd == mem[probdata]
       IN IF idx < nb_int_vars(pd)
          THEN LET var == At(pd.mip_int_vars_, idx)
               IN /\ IF FALSE
                     THEN /\ mem' = [mem EXCEPT ![probdata].mip_int_vars_ =
                                         SetAt(@, idx, SCIPtransform(var))]
                          /\ held' = Capture(held, SCIPtransform(var))
                     ELSE UNCHANGED << mem, held >>
                  /\ idx' = idx + 1
                  /\ UNCHANGED << pc, probdata >>
          ELSE /\ pc' = "live"
               /\ idx' = 0
               /\ probdata' = NULLPTR
               /\ UNCHANGED << mem, held >>
    /\ UNCHANGED << method_, mip_, ret, allocated, transdata, callbacks,
                    scipvars, flagvars, sol_, cycles, timervars >>

\* One iteration of the loop over the integer table; "Done." after the last.
TransInt ==
    /\ pc = "trans_int"
    /\ LET pd == mem[probdata]
       IN IF idx < nb_int_vars(pd)
          THEN LET var == At(pd.mip_int_vars_, idx)
               IN /\ IF var # NULL
                     THEN /\ mem' = [mem EXCEPT ![probdata].mip_int_vars_ =
                                         SetAt(@, idx, SCIPtransform(var))]
                          /\ held' = Capture(held, SCIPtransform(var))
                     ELSE UNCHANGED << mem, held >>
                  /\ idx' = idx + 1
                  /\ UNCHANGED << pc, probdata >>
          ELSE /\ pc' = "live"
               /\ idx' = 0
               /\ probdata' = NULLPTR
               /\ UNCHANGED << mem, held >>
    /\ UNCHANGED << method_, mip_, ret, allocated, transdata, callbacks,
                    scipvars, flagvars, sol_, cycles, timervars >>

OnTransform == TransBegin \/ TransCons \/ TransBool \/ TransInt

\* --------------------------------------------------- callback_probdeltrans
\* SCIPfreeTransform hands the transformed problem data to the callback.
DelBegin ==
    /\ pc = "live"
    /\ mip_ = "created"
    /\ "probdeltrans" \in callbacks
    /\ transdata # NULLPTR
    /\ probdata' = transdata
    /\ pc' = "del_cons"
    /\ ret' = "live"
    /\ UNCHANGED << method_, mip_, idx, mem, allocated, transdata, callbacks,
                    scipvars, held, flagvars, sol_, cycles, timervars >>

\* "Release CP constraint handler."
DelCons ==
    /\ pc = "del_cons"
    /\ LET cons == mem[probdata].cp_cons_
       IN IF cons # NULL
          THEN /\ held' = Release(held, cons)
               /\ misrel' = (misrel \/ ~BagIn(cons, held))
               /\ mem' = [mem EXCEPT ![probdata].cp_cons_ = NULL]
          ELSE UNCHANGED << mem, held, misrel >>
    /\ pc' = "del_bool"
    /\ idx' = 0
    /\ UNCHANGED << method_, mip_, ret, probdata, allocated, transdata, callbacks,
                    scipvars, relneg, assert_failed, sol_, cycles, timervars >>

\* DelBool without the is_pos_var test: every entry is released.
DelBoolAll ==
    /\ pc = "del_bool"
    /\ LET pd == mem[probdata]
       IN IF idx < nb_bool_vars(pd)
          THEN LET var == At(pd.mip_bool_vars_, idx)
               IN /\ IF TRUE
                     THEN /\ held' = Release(held, var)
                          /\ misrel' = (misrel \/ ~BagIn(var, held))
                          /\ relneg' = (relneg \/ var.n)
                          /\ mem' = [mem EXCEPT ![probdata].mip_bool_vars_ =
                                         SetAt(@, idx, NULL)]
                     ELSE UNCHANGED << mem, held, misrel, relneg >>
                  /\ idx' = idx + 1
                  /\ pc' = pc
          ELSE /\ pc' = "del_int"
               /\ idx' = 0
               /\ UNCHANGED << mem, held, misrel, relneg >>
    /\ UNCHANGED << method_, mip_, ret, probdata, allocated, transdata, callbacks,
                    scipvars, assert_failed, sol_, cycles, timervars >>

\* "Release variables.": one iteration of the loop over the boolean table.
DelBool ==
    /\ pc = "del_bool"
    /\ LET pd == mem[probdata]
       IN IF idx < nb_bool_vars(pd)
          THEN LET var == At(pd.mip_bool_vars_, idx)
               IN /\ IF is_pos_var(pd, idx)
                     THEN /\ held' = Release(held, var)
                          /\ misrel' = (misrel \/ ~BagIn(var, held))
                          /\ relneg' = (relneg \/ var.n)
                          /\ mem' = [mem EXCEPT ![probdata].mip_bool_vars_ =
                                         SetAt(@, idx, NULL)]
                     ELSE UNCHANGED << mem, held, misrel, relneg >>
                  /\ idx' = idx + 1
                  /\ pc' = pc
          ELSE /\ pc' = "del_int"
               /\ idx' = 0
               /\ UNCHANGED << mem, held, misrel, relneg >>
    /\ UNCHANGED << method_, mip_, ret, probdata, allocated, transdata, callbacks,
                    scipvars, assert_failed, sol_, cycles, timervars >>

\* DelInt that forgets the handle without releasing it.
DelIntLeak ==
    /\ pc = "del_int"
    /\ LET pd == mem[probdata]
       IN IF idx < nb_int_vars(pd)
          THEN LET var == At(pd.mip_int_vars_, idx)
               IN /\ IF var # NULL
                     THEN /\ UNCHANGED << held, misrel >>
                          /\ relneg' = (relneg \/ var.n)
                          /\ mem' = [mem EXCEPT ![probdata].mip_int_vars_ =
                                         SetAt(@, idx, NULL)]
                     ELSE UNCHANGED << mem, held, misrel, relneg >>
                  /\ idx' = idx + 1
                  /\ pc' = pc
          ELSE /\ pc' = "del_destroy"
               /\ idx' = 0
               /\ UNCHANGED << mem, held, misrel, relneg >>
    /\ UNCHANGED << method_, mip_, ret, probdata, allocated, transdata, callbacks,
                    scipvars, assert_failed, sol_, cycles, timervars >>

\* One iteration of the loop over the integer table.
DelInt ==
    /\ pc = "del_int"
    /\ LET pd == mem[probdata]
       IN IF idx < nb_int_vars(pd)
          THEN LET var == At(pd.mip_int_vars_, idx)
               IN /\ IF var # NULL
                     THEN /\ held' = Release(held, var)
                          /\ misrel' = (misrel \/ ~BagIn(var, held))
                          /\ relneg' = (relneg \/ var.n)
                          /\ mem' = [mem EXCEPT ![probdata].mip_int_vars_ =
                                         SetAt(@, idx, NULL)]
                     ELSE UNCHANGED << mem, held, misrel, relneg >>
                  /\ idx' = idx + 1
                  /\ pc' = pc
          ELSE /\ pc' = "del_destroy"
               /\ idx' = 0
               /\ UNCHANGED << mem, held, misrel, relneg >>
    /\ UNCHANGED << method_, mip_, ret, probdata, allocated, transdata, callbacks,
                    scipvars, assert_failed, sol_, cycles, timervars >>

\* "Destroy problem data.": the destructor of the copy, the block freed; SCIP
\* then forgets the transformed problem data.
DelDestroy ==
    /\ pc = "del_destroy"
    /\ allocated' = allocated \ {probdata}
    /\ mem' = [mem EXCEPT ![probdata] = EmptyProblemData]
    /\ transdata' = NULLPTR
    /\ probdata' = NULLPTR
    /\ pc' = ret
    /\ ret' = "live"
    /\ UNCHANGED << method_, mip_, idx, callbacks, scipvars, held, flagvars,
                    sol_, cycles, timervars >>

OnDetransform == DelBegin \/ DelCons \/ DelBool \/ DelInt \/ DelDestroy

\* DtorCons that goes on to the variables with the constraint not released.
DtorConsLeak ==
    /\ pc = "live"
    /\ LET cons == mem[ORIG].cp_cons_
       IN IF cons # NULL
          THEN UNCHANGED << mem, held, misrel >>
          ELSE UNCHANGED << mem, held, misrel >>
    /\ pc' = "dtor_bool"
    /\ idx' = 0
    /\ UNCHANGED << method_, mip_, ret, probdata, allocated, transdata, callbacks,
                    scipvars, relneg, assert_failed, sol_, cycles, timervars >>

\* ---------------------------------------------------------------- ~Model()
\* "Release CP constraint handler."
DtorCons ==
    /\ pc = "live"
    /\ LET cons == mem[ORIG].cp_cons_
       IN IF cons # NULL
          THEN /\ held' = Release(held, cons)
               /\ misrel' = (misrel \/ ~BagIn(cons, held))
               /\ mem' = [mem EXCEPT ![ORIG].cp_cons_ = NULL]
          ELSE UNCHANGED << mem, held, misrel >>
    /\ pc' = "dtor_bool"
    /\ idx' = 0
    /\ UNCHANGED << method_, mip_, ret, probdata, allocated, transdata, callbacks,
                    scipvars, relneg, assert_failed, sol_, cycles, timervars >>

\* DtorBool without the is_pos_var test: every entry is released.
DtorBoolAll ==
    /\ pc = "dtor_bool"
    /\ LET pd == mem[ORIG]
       IN IF idx < nb_bool_vars(pd)
          THEN LET var == At(pd.mip_bool_vars_, idx)
               IN /\ IF TRUE
                     THEN /\ held' = Release(held, var)
                          /\ misrel' = (misrel \/ ~BagIn(var, held))
                          /\ relneg' = (relneg \/ var.n)
                          /\ mem' = [mem EXCEPT ![ORIG].mip_bool_vars_ =
                                         SetAt(@, idx, NULL)]
                     ELSE UNCHANGED << mem, held, misrel, relneg >>
                  /\ idx' = idx + 1
                  /\ pc' = pc
          ELSE /\ pc' = "dtor_int"
               /\ idx' = 0
               /\ UNCHANGED << mem, held, misrel, relneg >>
    /\ UNCHANGED << method_, mip_, ret, probdata, allocated, transdata, callbacks,
                    scipvars, assert_failed, sol_, cycles, timervars >>

\* "Release variables.": one iteration of the loop over the boolean table.
DtorBool ==
    /\ pc = "dtor_bool"
    /\ LET pd == mem[ORIG]
       IN IF idx < nb_bool_vars(pd)
          THEN LET var == At(pd.mip_bool_vars_, idx)
               IN /\ IF is_pos_var(pd, idx)
                     THEN /\ held' = Release(held, var)
                          /\ misrel' = (misrel \/ ~BagIn(var, held))
                          /\ relneg' = (relneg \/ var.n)
                          /\ mem' = [mem EXCEPT ![ORIG].mip_bool_vars_ =
                                         SetAt(@, idx, NULL)]
                     ELSE UNCHANGED << mem, held, misrel, relneg >>
                  /\ idx' = idx + 1
                  /\ pc' = pc
          ELSE /\ pc' = "dtor_int"
               /\ idx' = 0
               /\ UNCHANGED << mem, held, misrel, relneg >>
    /\ UNCHANGED << method_, mip_, ret, probdata, allocated, transdata, callbacks,
                    scipvars, assert_failed, sol_, cycles, timervars >>

\* One iteration of the loop over the integer table.
DtorInt ==
    /\ pc = "dtor_int"
    /\ LET pd == mem[ORIG]
       IN IF idx < nb_int_vars(pd)
          THEN LET var == At(pd.mip_int_vars_, idx)
               IN /\ IF var # NULL
                     THEN /\ held' = Release(held, var)
                          /\ misrel' = (misrel \/ ~BagIn(var, held))
                          /\ relneg' = (relneg \/ var.n)
                          /\ mem' = [mem EXCEPT ![ORIG].mip_int_vars_ =
                                         SetAt(@, idx, NULL)]
                     ELSE UNCHANGED << mem, held, misrel, relneg >>
                  /\ idx' = idx + 1
                  /\ pc' = pc
          ELSE /\ pc' = "dtor_free"
               /\ idx' = 0
               /\ UNCHANGED << mem, held, misrel, relneg >>
    /\ UNCHANGED << method_, mip_, ret, probdata, allocated, transdata, callbacks,
                    scipvars, assert_failed, sol_, cycles, timervars >>

\* "Destroy SCIP.": SCIPfree first frees the transformed problem, if there
\* is one, through the probdeltrans callback.
DtorFree ==
    /\ pc = "dtor_free"
    /\ IF transdata # NULLPTR /\ "probdeltrans" \in callbacks
       THEN /\ probdata' = transdata
            /\ pc' = "del_cons"
            /\ ret' = "dtor_freed"
       ELSE /\ pc' = "dtor_freed"
            /\ UNCHANGED << probdata, ret >>
    /\ UNCHANGED << method_, mip_, idx, mem, allocated, transdata, callbacks,
                    scipvars, held, flagvars, sol_, cycles, timervars >>

\* SCIPfree returns with the instance gone; BMScheckEmptyMemory.
DtorFreed ==
    /\ pc = "dtor_freed"
    /\ mip_' = "freed"
    /\ probvars' = {}
    /\ probconss' = {}
    /\ pc' = "destroyed"
    /\ UNCHANGED << method_, ret, probdata, idx, mem, allocated, transdata, callbacks,
                    vardefs, ncons, held, flagvars, sol_, cycles, timervars >>

Destructor == DtorCons \/ DtorBool \/ DtorInt \/ DtorFree \/ DtorFreed

Constructor == CtorScip \/ CtorFalse \/ CtorTrue \/ CtorZero \/ CtorCons \/ CtorCallbacks

\* The if-chain with two branches exchanged.
DispatchSwapped(m) ==
    CASE m = "BC" -> "minimize_using_bc"
      [] m = "LBBD" -> "minimize_using_lbbd"
      [] m = "MIP" -> "minimize_using_cp"
      [] m = "CP" -> "minimize_using_mip"
      [] OTHER -> "none"

\* ------------------------------------------------------- minimize and timer
\* The strategy the if-chain of Model::minimize calls for a method ("none":
\* the final else, err("Invalid method")).
Dispatch(m) ==
    CASE m = "BC" -> "minimize_using_bc"
      [] m = "LBBD" -> "minimize_using_lbbd"
      [] m = "MIP" -> "minimize_using_mip"
      [] m = "CP" -> "minimize_using_cp"
      [] OTHER -> "none"

\* Model::minimize that starts the timer and checks the limit itself, before
\* it dispatches.
MinimizeChecked(obj_var, time_limit) ==
    /\ pc = "live"
    /\ mip_ = "created"
    /\ nb_minimize < MaxMinimize
    /\ nb_minimize' = nb_minimize + 1
    /\ IF time_limit > 0 /\ Dispatch(method_) # "none"
       THEN /\ strategy' = Dispatch(method_)
            /\ call_args' = << obj_var, time_limit >>
            /\ time_limit_' = time_limit
            /\ start_time_' = clk
            /\ pc' = pc
       ELSE /\ pc' = "aborted"
            /\ UNCHANGED << strategy, call_args, time_limit_, start_time_ >>
    /\ UNCHANGED << method_, mip_, ret, probdata, idx, mem, allocated, transdata,
                    callbacks, scipvars, held, flagvars, sol_, cycles, clk, query >>

\* Model::minimize(obj_var, time_limit).
Minimize(obj_var, time_limit) ==
    /\ pc = "live"
    /\ mip_ = "created"
    /\ nb_minimize < MaxMinimize
    /\ nb_minimize' = nb_minimize + 1
    /\ IF Dispatch(method_) # "none"
       THEN /\ strategy' = Dispatch(method_)
            /\ call_args' = << obj_var, time_limit >>
            /\ pc' = pc
       ELSE /\ pc' = "aborted"
            /\ UNCHANGED << strategy, call_args >>
    /\ UNCHANGED << method_, mip_, ret, probdata, idx, mem, allocated, transdata,
                    callbacks, scipvars, held, flagvars, sol_, cycles,
                    time_limit_, start_time_, clk, query >>

\* start_timer that stores the limit and the start mark before it checks
\* the limit.
StartTimerWriteFirst(time_limit) ==
    /\ pc = "live"
    /\ IF time_limit > 0
       THEN /\ time_limit_' = time_limit
            /\ start_time_' = clk
            /\ UNCHANGED << pc, assert_failed >>
       ELSE /\ assert_failed' = TRUE
            /\ pc' = "aborted"
            /\ time_limit_' = time_limit
            /\ start_time_' = clk
    /\ UNCHANGED << method_, mip_, ret, probdata, idx, mem, allocated, transdata,
                    callbacks, scipvars, held, misrel, relneg, sol_, cycles,
                    strategy, call_args, nb_minimize, clk, query >>

\* Model::start_timer(time_limit).
StartTimer(time_limit) ==
    /\ pc = "live"
    /\ IF time_limit > 0
       THEN /\ time_limit_' = time_limit
            /\ start_time_' = clk
            /\ UNCHANGED << pc, assert_failed >>
       ELSE /\ assert_failed' = TRUE
            /\ pc' = "aborted"
            /\ UNCHANGED << time_limit_, start_time_ >>
    /\ UNCHANGED << method_, mip_, ret, probdata, idx, mem, allocated, transdata,
                    callbacks, scipvars, held, misrel, relneg, sol_, cycles,
                    strategy, call_args, nb_minimize, clk, query >>

\* CPU time passes: clock() reads one more.
Tick ==
    /\ clk < MaxClock
    /\ pc \in {"live", "aborted"}
    /\ clk' = clk + 1
    /\ UNCHANGED << method_, mip_, pc, ret, probdata, idx, mem, allocated, transdata,
                    callbacks, scipvars, held, flagvars, sol_, cycles,
                    strategy, call_args, nb_minimize, time_limit_, start_time_,
                    query >>

\* Model::get_cpu_time(): static_cast<Float>(clock() - start_time_) /
\* CLOCKS_PER_SEC.
get_cpu_time == Frac(clk - start_time_, CLOCKS_PER_SEC)

\* get_time_remaining() that never returns less than zero.
get_time_remaining_clamped ==
    LET r == FracSub(Frac(time_limit_, 1), get_cpu_time)
    IN IF r.num < 0 THEN Frac(0, 1) ELSE r

\* Model::get_time_remaining(): time_limit_ - get_cpu_time().
get_time_remaining == FracSub(Frac(time_limit_, 1), get_cpu_time)

\* A caller asks for the CPU time used.
GetCpuTime ==
    /\ pc = "live"
    /\ query' = [op |-> "get_cpu_time", val |-> get_cpu_time]
    /\ UNCHANGED << method_, mip_, pc, ret, probdata, idx, mem, allocated, transdata,
                    callbacks, scipvars, held, flagvars, sol_, cycles,
                    strategy, call_args, nb_minimize, time_limit_, start_time_, clk >>

\* A caller asks for the time remaining.
GetTimeRemaining ==
    /\ pc = "live"
    /\ query' = [op |-> "get_time_remaining", val |-> get_time_remaining]
    /\ UNCHANGED << method_, mip_, pc, ret, probdata, idx, mem, allocated, transdata,
                    callbacks, scipvars, held, flagvars, sol_, cycles,
                    strategy, call_args, nb_minimize, time_limit_, start_time_, clk >>

Timer ==
    \/ \E time_limit \in TimeLimits : StartTimer(time_limit)
    \/ Tick
    \/ GetCpuTime
    \/ GetTimeRemaining

Solve ==
    \/ \E obj_var \in 0 .. (nb_int_vars(mem[ORIG]) - 1), time_limit \in TimeLimits :
           Minimize(obj_var, time_limit)
    \/ \E time_limit \in TimeLimits : StartTimer(time_limit)
    \/ Tick

BoolVariables ==
    \/ AddBoolVar
    \/ \E p \in 0 .. (nb_bool_vars(mem[ORIG]) - 1) : GetNeg(p)

IntVariables == \E ub \in 0 .. 1, present \in BOOLEAN : AddIntVar(0, ub, present)

Writes == \E a \in Addrs, v \in 0 .. 1 : WriteObj(a, v) \/ WriteSol(a, v)

\* The life of a Model and of the transformed problems SCIP makes of it.
Next ==
    \/ Constructor
    \/ BoolVariables
    \/ IntVariables
    \/ OnTransform
    \/ OnDetransform
    \/ Destructor

Spec == Init /\ [][Next]_vars

\* The original ProblemData and the working copy, written through by the
\* strategies while a transformed problem exists.
NextShare == Constructor \/ IntVariables \/ Writes \/ OnTransform \/ OnDetransform

SpecShare == Init /\ [][NextShare]_vars

\* Construction with backend calls that can fail, and the life of a Model
\* whose construction succeeded.
NextFail ==
    \/ Constructor
    \/ \E created \in BOOLEAN : CtorFail(created)
    \/ IntVariables
    \/ Destructor

SpecFail == Init /\ [][NextFail]_vars

\* The timer of a constructed Model and its queries.
NextTimer == Constructor \/ Timer

SpecTimer == Init /\ [][NextTimer]_vars

\* The Model as its client drives it: construction, integer variables,
\* minimize and the timer.
NextSolve == Constructor \/ IntVariables \/ Solve

SpecSolve == Init /\ [][NextSolve]_vars
\* =================================================================== claims
\* The Model is constructed and its destructor has not started.
Constructed ==
    \/ pc \in {"live", "aborted", "trans_cons", "trans_bool", "trans_int"}
    \/ pc \in {"del_cons", "del_bool", "del_int", "del_destroy"} /\ ret = "live"

BoolIdx(pd) == 0 .. (nb_bool_vars(pd) - 1)

IntIdx(pd) == 0 .. (nb_int_vars(pd) - 1)

\* The handles a ProblemData's tables hold a capture of: its constraint, its
\* positive boolean variables, its present integer variables.
OwnedHandles(pd) ==
    ( {pd.cp_cons_}
      \cup {At(pd.mip_bool_vars_, i) : i \in {j \in BoolIdx(pd) : is_pos_var(pd, j)}}
      \cup {At(pd.mip_int_vars_, i) : i \in IntIdx(pd)} ) \ {NULL}

\* C1: from the end of construction until destruction boolean index 0 is the
\* constant false (the first SCIP variable, binary, bounds [0,0], Geas
\* at_False), boolean index 1 is the constant true, SCIP's complement of index
\* 0, and integer index 0 is the constant zero with bounds [0,0]; the
\* sentinels are created in the order false, true, zero; construction ends
\* with the objective variable index 0.
C1_Sentinels ==
    /\ [](Constructed =>
            LET pd == mem[ORIG]
            IN /\ nb_bool_vars(pd) >= 2 /\ nb_int_vars(pd) >= 1
               /\ At(pd.mip_bool_vars_, 0) = OrigVar(0)
               /\ vardefs[1] = SCIPcreateVarBasic("false", 0, 0, 0, "BINARY")
               /\ At(pd.cp_bool_vars_, 0) = at_False
               /\ is_pos_var(pd, 0)
               /\ At(pd.mip_bool_vars_, 1) = SCIPgetNegatedVar(At(pd.mip_bool_vars_, 0))
               /\ At(pd.cp_bool_vars_, 1) = at_True
               /\ ~is_pos_var(pd, 1)
               /\ At(pd.mip_int_vars_, 0) = OrigVar(1)
               /\ vardefs[2] = SCIPcreateVarBasic("zero", 0, 0, 0, "INTEGER")
               /\ At(pd.int_vars_lb_, 0) = 0 /\ At(pd.int_vars_ub_, 0) = 0
               /\ At(pd.cp_int_vars_, 0).lb = 0 /\ At(pd.cp_int_vars_, 0).ub = 0)
    /\ [](nb_int_vars(mem[ORIG]) >= 1 => nb_bool_vars(mem[ORIG]) >= 2)
    /\ [][(pc = "ctor_callbacks" /\ pc' = "live") => mem'[ORIG].obj_var_idx_ = 0]_vars

\* C1's case: a constructed Model, later in its life: variables were added
\* and a transformed problem has come and gone.
C1_Witness ==
    /\ pc = "live" /\ cycles >= 1 /\ transdata = NULLPTR
    /\ nb_bool_vars(mem[ORIG]) > 2
    /\ At(mem[ORIG].mip_bool_vars_, 1) = SCIPgetNegatedVar(OrigVar(0))

\* C2: on-transform followed by on-detransform leaves no capture of a
\* transformed handle: the captures held are again exactly those of the
\* original ProblemData, no release was made without a capture, and the
\* block of the copy is freed.
C2_RoundTrip ==
    (pc = "live" /\ transdata = NULLPTR) =>
        /\ held = SetToBag(OwnedHandles(mem[ORIG]))
        /\ ~misrel
        /\ BLOCK \notin allocated

\* C2's case: a round trip is over, in branch-and-cut mode, with a negated
\* boolean variable, the zero variable and an absent integer slot.
C2_Witness ==
    /\ pc = "live" /\ transdata = NULLPTR /\ cycles >= 1 /\ method_ = "BC"
    /\ \E i \in BoolIdx(mem[ORIG]) : i > 1 /\ ~is_pos_var(mem[ORIG], i)
    /\ \E i \in IntIdx(mem[ORIG]) : At(mem[ORIG].mip_int_vars_, i) = NULL
    /\ held # EmptyBag

\* C3: when a Model that never had a transformed problem (minimize was never
\* called) is destroyed, no capture taken at construction or later is left
\* and no release was made without a capture.
C3_DestroyFresh ==
    (pc = "destroyed" /\ cycles = 0) => (held = EmptyBag /\ ~misrel)

\* C3's case: destroyed, branch-and-cut mode, no transformed problem ever.
C3_Witness ==
    /\ pc = "destroyed" /\ cycles = 0 /\ method_ = "BC"
    /\ mem[ORIG].cp_cons_ = NULL /\ ncons = 1

\* The ProblemData a release step works on: the member in the destructor,
\* the callback's argument in on-detransform.
RelAddr == IF pc \in {"live", "dtor_bool", "dtor_int"} THEN ORIG ELSE probdata

\* Handle h is released by the step.
Released(h) == CopiesIn(h, held') < CopiesIn(h, held)

\* Every capture of the ProblemData has been given back.
AllReleased(pd) == OwnedHandles(pd) = {}

\* C4: in the destructor and in on-detransform, a variable handle of a
\* ProblemData is released only when that ProblemData's constraint handle is
\* released or absent; an integer variable only when every positive boolean
\* variable is released; SCIP is freed, and the copy destroyed, only when
\* every handle of that ProblemData is released; no negated entry is ever
\* passed to a release call.
C4_ReleaseOrder ==
    /\ [][\A h \in BagToSet(held) :
            (Released(h) /\ h.k = "var") =>
                /\ mem[RelAddr].cp_cons_ = NULL
                /\ (\E i \in IntIdx(mem[RelAddr]) : At(mem[RelAddr].mip_int_vars_, i) = h)
                     => \A j \in BoolIdx(mem[RelAddr]) :
                           is_pos_var(mem[RelAddr], j)
                             => At(mem[RelAddr].mip_bool_vars_, j) = NULL]_vars
    /\ [][(pc = "dtor_int" /\ pc' = "dtor_free") => AllReleased(mem[ORIG])]_vars
    /\ [][(pc = "del_int" /\ pc' = "del_destroy") => AllReleased(mem[probdata])]_vars
    /\ [][(BLOCK \in allocated /\ BLOCK \notin allocated') => AllReleased(mem[BLOCK])]_vars
    /\ [](~relneg)

\* C4's case: on-detransform, called from SCIPfree in the destructor, is
\* about to destroy a copy that had a constraint and a negated variable.
C4_Witness ==
    /\ pc = "del_destroy" /\ ret = "dtor_freed" /\ method_ = "BC"
    /\ nb_bool_vars(mem[probdata]) > 2
    /\ ~relneg

\* C5: no release is ever made on a handle this code holds no capture of
\* (none twice, none never acquired), and when the Model is destroyed no
\* capture is left.
C5_Pairing ==
    /\ ~misrel
    /\ (pc = "destroyed" => held = EmptyBag)
    /\ (pc = "destroyed" => allocated = {ORIG})

\* C5's case: the destructor ran while a transformed problem existed, after
\* an earlier complete cycle; SCIPfree has called on-detransform.
C5_Witness ==
    /\ pc = "del_destroy" /\ ret = "dtor_freed" /\ cycles >= 2
    /\ held = EmptyBag

\* The constructor body is running.
InConstructor ==
    pc \in {"ctor_scip", "ctor_false", "ctor_true", "ctor_zero", "ctor_cons",
            "ctor_callbacks"}

\* C6: in every ProblemData, every aliased (negated) boolean index i has
\* 0 <= neg_idx[i] < i and neg_idx[neg_idx[i]] = i; and, once the Model is
\* constructed, negation_of(negation_of(p)) = p for every positive index p,
\* the sentinel pair 0/1 included.
C6_Aliasing ==
    \A a \in Addrs :
        LET pd == mem[a]
        IN /\ \A i \in BoolIdx(pd) :
                ~is_pos_var(pd, i) =>
                    /\ 0 <= negation_of(pd, i) /\ negation_of(pd, i) < i
                    /\ negation_of(pd, negation_of(pd, i)) = i
           /\ ~InConstructor =>
                \A p \in BoolIdx(pd) :
                    is_pos_var(pd, p) =>
                        /\ negation_of(pd, p) \in BoolIdx(pd)
                        /\ negation_of(pd, negation_of(pd, p)) = p

\* C6's case: besides the sentinel pair, a variable and its negation exist,
\* in the original and in a transformed copy.
C6_Witness ==
    /\ pc = "live" /\ transdata = BLOCK
    /\ \E i \in BoolIdx(mem[BLOCK]) :
          /\ i > 1 /\ ~is_pos_var(mem[BLOCK], i)
          /\ negation_of(mem[BLOCK], negation_of(mem[BLOCK], i)) = i
    /\ negation_of(mem[ORIG], 0) = 1 /\ negation_of(mem[ORIG], 1) = 0

\* C7 as stated: in every state, construction included, every aliasing index
\* is inside the table and is the entry's own index or the smaller index of
\* a positive entry, and neg_idx[0] = 0.
C7_Original ==
    LET pd == mem[ORIG]
    IN /\ \A i \in BoolIdx(pd) :
            /\ 0 <= negation_of(pd, i) /\ negation_of(pd, i) < nb_bool_vars(pd)
            /\ \/ negation_of(pd, i) = i
               \/ /\ negation_of(pd, i) < i
                  /\ negation_of(pd, negation_of(pd, i)) = negation_of(pd, i)
       /\ nb_bool_vars(pd) >= 1 => negation_of(pd, 0) = 0

\* C7, amended: every aliasing index is >= 0 and inside the table, except
\* that between the insertion of false and of true neg_idx[0] = 1 names the
\* entry about to be inserted; it is the entry's own index (a positive
\* variable without a negation), a larger index (a positive variable, the
\* index being its negation's) or the smaller index of a positive entry;
\* the positive sentinel false has neg_idx[0] = 1.
C7_Amended ==
    \A a \in Addrs :
        LET pd == mem[a]
        IN /\ \A i \in BoolIdx(pd) :
                /\ 0 <= negation_of(pd, i) /\ negation_of(pd, i) <= nb_bool_vars(pd)
                /\ negation_of(pd, i) = nb_bool_vars(pd) =>
                       (pc = "ctor_true" /\ i = 0 /\ a = ORIG)
                /\ \/ negation_of(pd, i) >= i
                   \/ is_pos_var(pd, negation_of(pd, i))
           /\ nb_bool_vars(pd) >= 1 => negation_of(pd, 0) = 1

\* C7's case: between the insertion of false and of true.
C7_Witness ==
    /\ pc = "ctor_true"
    /\ nb_bool_vars(mem[ORIG]) = 1
    /\ negation_of(mem[ORIG], 0) = 1

\* C8: no step of on-transform or on-detransform changes the original
\* ProblemData: its handles, tables, bounds, names and objective index.
C8_OriginalUnchanged ==
    [][(OnTransform \/ OnDetransform) => mem'[ORIG] = mem[ORIG]]_vars

\* C8's case: two cycles are over and the original still holds its own
\* handles, the constraint included.
C8_Witness ==
    /\ pc = "live" /\ cycles >= 2 /\ transdata = NULLPTR /\ method_ = "BC"
    /\ mem[ORIG].cp_cons_ = OrigCons(0)
    /\ nb_bool_vars(mem[ORIG]) > 2

\* What is read through the original ProblemData: its members, and the
\* solution its sol_ reference names.
ObsOrig == << mem[ORIG], sol_[mem[ORIG].sol_] >>

\* What is read through the working copy.
ObsCopy == << mem[transdata], sol_[mem[transdata].sol_] >>

\* A write made through the working copy / through the original.
WriteThroughCopy == \E v \in 0 .. 1 : WriteObj(transdata, v) \/ WriteSol(transdata, v)

WriteThroughOrig == \E v \in 0 .. 1 : WriteObj(ORIG, v) \/ WriteSol(ORIG, v)

\* C9 as stated: while a working copy exists, no write through the copy is
\* observable through the original, and vice versa.
C9_Original ==
    [][(transdata # NULLPTR) =>
          /\ WriteThroughCopy => ObsOrig' = ObsOrig
          /\ WriteThroughOrig => ObsCopy' = ObsCopy]_vars

\* C9, amended: while a working copy exists, the members of the original
\* and of the copy (tables, handles, objective index) are separate: a write
\* to them through one is not observable through the other; the cached
\* solution is reached through a reference both hold to the Model's sol_,
\* so a solution written through one is the solution read through the other.
C9_Amended ==
    /\ [][(transdata # NULLPTR) =>
            /\ WriteThroughCopy => mem'[ORIG] = mem[ORIG]
            /\ WriteThroughOrig => mem'[transdata] = mem[transdata]
            /\ \A v \in 0 .. 1 :
                  /\ WriteSol(transdata, v) => sol_'[mem[ORIG].sol_] = v
                  /\ WriteSol(ORIG, v) => sol_'[mem[transdata].sol_] = v]_vars
    /\ [](transdata # NULLPTR => (transdata # ORIG /\ mem[transdata].sol_ = mem[ORIG].sol_))

\* C9's case: a working copy exists, a solution was stored, and the
\* objective index of the copy differs from the original's.
C9_Witness ==
    /\ pc = "live" /\ transdata = BLOCK
    /\ mem[BLOCK].obj_var_idx_ # mem[ORIG].obj_var_idx_
    /\ sol_[mem[BLOCK].sol_] = 1

C11_Dispatch ==
    /\ [][\A obj_var \in IntIdx(mem[ORIG]), time_limit \in TimeLimits :
            Minimize(obj_var, time_limit) =>
                IF method_ \in {"BC", "LBBD", "MIP", "CP"}
                THEN /\ strategy' =
                          (CASE method_ = "BC" -> "minimize_using_bc"
                             [] method_ = "LBBD" -> "minimize_using_lbbd"
                             [] method_ = "MIP" -> "minimize_using_mip"
                             [] method_ = "CP" -> "minimize_using_cp")
                     /\ call_args' = << obj_var, time_limit >>
                     /\ pc' = "live"
                ELSE /\ pc' = "aborted"
                     /\ strategy' = strategy /\ call_args' = call_args]_vars
    /\ [][method_' = method_]_vars
    /\ [](method_ \notin {"BC", "LBBD", "MIP", "CP"} => strategy = "none")

\* C11's case: pure-CP mode, the second integer variable as objective and a
\* positive limit were passed through to minimize_using_cp.
C11_Witness ==
    /\ method_ = "CP" /\ strategy = "minimize_using_cp"
    /\ call_args = << 1, 2 >> /\ pc = "live"

\* C12: once the Model is constructed, and until its destructor starts, the
\* original ProblemData has a constraint handle exactly in branch-and-cut
\* mode; there construction created one constraint and added it to the
\* problem; in every other mode no constraint is ever created, held or
\* stored, in the original or in a copy.
C12_ConsIffBC ==
    /\ Constructed => (mem[ORIG].cp_cons_ # NULL <=> method_ = "BC")
    /\ (Constructed /\ method_ = "BC") =>
          /\ mem[ORIG].cp_cons_ = OrigCons(0)
          /\ ncons = 1
          /\ probconss = {OrigCons(0)}
    /\ method_ # "BC" =>
          /\ ncons = 0 /\ probconss = {}
          /\ \A a \in Addrs : mem[a].cp_cons_ = NULL
          /\ \A h \in BagToSet(held) : h.k # "cons"

\* C12's case: branch-and-cut mode, a transformed problem exists whose copy
\* holds the transformed constraint while the original holds its own.
C12_Witness ==
    /\ pc = "live" /\ method_ = "BC" /\ transdata = BLOCK
    /\ mem[ORIG].cp_cons_ = OrigCons(0)
    /\ mem[BLOCK].cp_cons_ = SCIPtransform(OrigCons(0))

\* C13: when a backend call fails inside the constructor, the handles the
\* constructor created before are released: it is left with no capture held.
C13_FailureReleases ==
    pc = "ctor_failed" => held = EmptyBag

\* C14: on-transform walks the boolean table in increasing index order from
\* 0; every entry below the index is transformed and none from it on; when
\* the walk is at a non-positive entry idx, p = neg_idx[idx] has 0 <= p < idx
\* and the entry at p is a positive variable of the transformed problem; the
\* assertion never fails.
C14_WalkOrder ==
    /\ [](pc = "trans_bool" =>
            LET pd == mem[probdata]
            IN /\ \A j \in BoolIdx(pd) : At(pd.mip_bool_vars_, j).t <=> j < idx
               /\ (idx < nb_bool_vars(pd) /\ ~is_pos_var(pd, idx)) =>
                     LET p == At(pd.mip_neg_vars_idx_, idx)
                     IN /\ 0 <= p /\ p < idx
                        /\ is_pos_var(pd, p)
                        /\ At(pd.mip_bool_vars_, p).k = "var"
                        /\ At(pd.mip_bool_vars_, p).t
                        /\ ~At(pd.mip_bool_vars_, p).n)
    /\ [][(pc = "trans_bool" /\ pc' = "trans_bool") => idx' = idx + 1]_vars
    /\ [][(pc # "trans_bool" /\ pc' = "trans_bool") => idx' = 0]_vars
    /\ [](~assert_failed /\ pc # "aborted")

\* C14's case: the walk is at a negated entry beyond the sentinel pair.
C14_Witness ==
    /\ pc = "trans_bool" /\ idx > 1 /\ idx < nb_bool_vars(mem[probdata])
    /\ ~is_pos_var(mem[probdata], idx)
    /\ At(mem[probdata].mip_bool_vars_, At(mem[probdata].mip_neg_vars_idx_, idx)).t

\* On-transform has completed and on-detransform has not released anything
\* of the copy yet.
CopyComplete ==
    transdata # NULLPTR /\ pc \in {"live", "dtor_bool", "dtor_int", "dtor_free", "del_cons"}

\* C15: when on-transform has completed, every backend-A handle of the copy
\* is one of the transformed problem: the constraint if the original has
\* one, every boolean entry (negated exactly when the entry is not positive)
\* and every present integer entry; absent integer slots are absent in the
\* copy; while the original still holds its handles, each handle of the copy
\* is the transformed counterpart of the original's.
C15_AllTransformed ==
    CopyComplete =>
        LET c == mem[transdata]
            o == mem[ORIG]
        IN /\ transdata # ORIG
           /\ (c.cp_cons_ # NULL) <=> (method_ = "BC")
           /\ c.cp_cons_ # NULL => (c.cp_cons_.t /\ c.cp_cons_.k = "cons")
           /\ \A i \in BoolIdx(c) :
                 /\ At(c.mip_bool_vars_, i).k = "var"
                 /\ At(c.mip_bool_vars_, i).t
                 /\ At(c.mip_bool_vars_, i).n <=> ~is_pos_var(c, i)
           /\ \A i \in IntIdx(c) :
                 At(c.mip_int_vars_, i) # NULL =>
                     (At(c.mip_int_vars_, i).t /\ At(c.mip_int_vars_, i).k = "var")
           /\ pc = "live" =>
                 /\ c.cp_cons_ = (IF o.cp_cons_ = NULL THEN NULL ELSE SCIPtransform(o.cp_cons_))
                 /\ \A i \in BoolIdx(c) :
                       At(c.mip_bool_vars_, i) = SCIPtransform(At(o.mip_bool_vars_, i))
                 /\ \A i \in IntIdx(c) :
                       At(c.mip_int_vars_, i) =
                           (IF At(o.mip_int_vars_, i) = NULL
                            THEN NULL ELSE SCIPtransform(At(o.mip_int_vars_, i)))

\* C15's case: a completed copy in branch-and-cut mode with a negated
\* variable beyond the sentinels, a present integer variable and an absent
\* integer slot.
C15_Witness ==
    /\ pc = "live" /\ transdata = BLOCK /\ method_ = "BC"
    /\ \E i \in BoolIdx(mem[BLOCK]) : i > 1 /\ At(mem[BLOCK].mip_bool_vars_, i).n
    /\ \E i \in IntIdx(mem[BLOCK]) : At(mem[BLOCK].mip_int_vars_, i) = NULL
    /\ At(mem[BLOCK].mip_int_vars_, 0) = SCIPtransform(OrigVar(1))

\* The tables of a ProblemData are as long as each other.
TablesAligned(pd) ==
    /\ Len(pd.cp_bool_vars_) = Len(pd.mip_bool_vars_)
    /\ Len(pd.mip_neg_vars_idx_) = Len(pd.mip_bool_vars_)
    /\ Len(pd.bool_vars_name_) = Len(pd.mip_bool_vars_)
    /\ Len(pd.cp_int_vars_) = Len(pd.mip_int_vars_)
    /\ Len(pd.int_vars_lb_) = Len(pd.mip_int_vars_)
    /\ Len(pd.int_vars_ub_) = Len(pd.mip_int_vars_)
    /\ Len(pd.int_vars_name_) = Len(pd.mip_int_vars_)
    /\ Len(pd.mip_indicator_vars_idx_) = Len(pd.mip_int_vars_)

\* C16: between operations (and between the blocks of the constructor) the
\* boolean tables of a ProblemData have one length and its integer tables
\* have one length; a copy has the lengths of the original.
C16_Lengths ==
    /\ \A a \in Addrs : TablesAligned(mem[a])
    /\ transdata # NULLPTR =>
          /\ nb_bool_vars(mem[transdata]) = nb_bool_vars(mem[ORIG])
          /\ nb_int_vars(mem[transdata]) = nb_int_vars(mem[ORIG])
          /\ Len(mem[transdata].cp_bool_vars_) = Len(mem[ORIG].cp_bool_vars_)
          /\ Len(mem[transdata].cp_int_vars_) = Len(mem[ORIG].cp_int_vars_)

\* C16's case: on-transform is rewriting a copy whose tables hold more than
\* the sentinels.
C16_Witness ==
    /\ pc = "trans_int" /\ idx = 1
    /\ nb_bool_vars(mem[probdata]) > 2 /\ nb_int_vars(mem[probdata]) > 1
    /\ Len(mem[probdata].mip_indicator_vars_idx_) > 1

\* Everything but the record of the last query.
nonquery == << method_, mip_, pc, ret, probdata, idx, mem, allocated, transdata,
               callbacks, vardefs, ncons, probvars, probconss, held, misrel, relneg,
               assert_failed, sol_, cycles, strategy, call_args, nb_minimize,
               time_limit_, start_time_, clk >>

\* C17: with the start mark c0 = start_time_ and the limit t = time_limit_
\* that start_timer stored, a query made at clock reading c = clk >= c0
\* returns (c - c0) / CLOCKS_PER_SEC seconds as the CPU time and t minus
\* that as the time remaining, negative when the limit is exceeded; a query
\* changes neither time_limit_ nor start_time_ nor anything else, and the two
\* are what the last start_timer(t), t > 0, stored: t and its clock reading.
C17_Queries ==
    /\ [][GetCpuTime =>
            /\ query'.val.den > 0
            /\ query'.val.num * CLOCKS_PER_SEC = (clk - start_time_) * query'.val.den
            /\ query'.val.num >= 0
            /\ nonquery' = nonquery]_vars
    /\ [][GetTimeRemaining =>
            /\ query'.val.den > 0
            /\ query'.val.num * CLOCKS_PER_SEC =
                   (time_limit_ * CLOCKS_PER_SEC - (clk - start_time_)) * query'.val.den
            /\ (query'.val.num < 0) <=> (clk - start_time_ > time_limit_ * CLOCKS_PER_SEC)
            /\ nonquery' = nonquery]_vars
    /\ [](start_time_ <= clk)
    /\ [][(time_limit_' # time_limit_ \/ start_time_' # start_time_) =>
            \E t \in TimeLimits :
                t > 0 /\ StartTimer(t) /\ time_limit_' = t /\ start_time_' = clk]_vars

\* C17's case: the timer was started with a limit of one second, three ticks
\* of half a second later the time remaining is minus half a second.
C17_Witness ==
    /\ time_limit_ = 1 /\ clk - start_time_ = 3
    /\ query = [op |-> "get_time_remaining", val |-> [num |-> -1, den |-> 2]]

\* C18: start_timer(t) with t <= 0 fails its check with time_limit_ and
\* start_time_ as they were; with t > 0 it stores t and the current clock
\* reading, whatever was stored before, and fails nothing.
C18_StartTimer ==
    [][\A t \in TimeLimits :
          StartTimer(t) =>
              IF t > 0
              THEN /\ time_limit_' = t /\ start_time_' = clk
                   /\ pc' = "live" /\ assert_failed' = assert_failed
              ELSE /\ time_limit_' = time_limit_ /\ start_time_' = start_time_
                   /\ pc' = "aborted" /\ assert_failed']_vars

\* C18's case: a timer started at a later clock reading with limit 2, then
\* start_timer called with a limit <= 0: the call failed, both are kept.
C18_Witness ==
    /\ pc = "aborted" /\ assert_failed
    /\ time_limit_ = 2 /\ start_time_ = 2 /\ clk = 3

====
